---- MODULE Spec2Model ----
(***************************************************************************)
(* A model of stock_scraper.py: the batch pipeline                         *)
(*   URL source -> fetch -> parse_stock_rows -> derive_manual_skus -> sink *)
(*                                                                         *)
(* Text is modelled as a sequence of one-character strings, so that        *)
(* stripping, splitting at a space, int() parsing and str() formatting are *)
(* computed character by character as Python computes them. A character   *)
(* outside printable ASCII is written as the name of its code point        *)
(* ("U+00A0"); "Nd0" .. "Nd9" stand for the non-ASCII decimal digits       *)
(* (Unicode category Nd) of value 0 .. 9.                                  *)
(* A table cell is a tagged value: a Python str or a Python int.           *)
(***************************************************************************)
EXTENDS Integers, Sequences, FiniteSets, TLC

VARIABLES
    pc,             \* position of main(): start, fetch, parse, sleep, build, output, w_*, done
    USE_SHEETS,     \* line 10: the mode toggle
    csv,            \* urls.csv as the local provider sees it
    sheetA,         \* column A of the worksheet (remote URL provider)
    sheetB,         \* column B of the worksheet, row 1 first
    sheetC,         \* column C of the worksheet, row 1 first
    headerBold,     \* whether B1:C1 is bold
    outfile,        \* output.csv: <<>> when absent, else <<content>>
    urls,           \* main's local `urls`
    i,              \* 1-based index of the URL the for-loop is at
    html,           \* main's local `html`: the last fetch result
    all_stock_data, \* main's local `all_stock_data`
    df,             \* main's local `df`
    log,            \* the externally visible calls of the run, in order
    sink,           \* the tables handed to the Output Sink, in order
    initial,        \* the files and the worksheet as they were when the run began
    d_in,           \* derive harness: the caller's table
    d_out,          \* derive harness: the returned table
    d_pc,           \* derive harness: ready / done
    p_html,         \* parse harness: the html handed to parse_stock_rows
    p_out,          \* parse harness: the returned rows
    p_pc,           \* parse harness: ready / done
    int_max_str_digits  \* the interpreter's sys.int_max_str_digits (0: no limit)

vars == <<pc, USE_SHEETS, csv, sheetA, sheetB, sheetC, headerBold, outfile, urls,
          i, html, all_stock_data, df, log, sink, initial,
          d_in, d_out, d_pc, p_html, p_out, p_pc, int_max_str_digits>>

mainVars == <<pc, USE_SHEETS, csv, sheetA, sheetB, sheetC, headerBold, outfile, urls,
              i, html, all_stock_data, df, log, sink, initial>>
deriveVars == <<d_in, d_out, d_pc>>
parseVars == <<p_html, p_out, p_pc>>

-----------------------------------------------------------------------------
(* Text *)

VT == "U+000B"
NBSP == "U+00A0"
\* U+001C .. U+001F: the information separators
Separators == {"U+001C", "U+001D", "U+001E", "U+001F"}

\* The characters str.strip() removes: those for which str.isspace() holds.
Whitespace ==
    {" ", "\t", "\n", "\r", "\f", VT} \cup Separators
    \cup {"U+0085", NBSP, "U+1680", "U+2000", "U+2001", "U+2002", "U+2003", "U+2004",
          "U+2005", "U+2006", "U+2007", "U+2008", "U+2009", "U+200A", "U+2028", "U+2029",
          "U+202F", "U+205F", "U+3000"}

\* The characters int() accepts around the number: the same, but for U+001C .. U+001F.
IntWhitespace == Whitespace \ Separators

AsciiDigits == {"0", "1", "2", "3", "4", "5", "6", "7", "8", "9"}
NdDigits == {"Nd0", "Nd1", "Nd2", "Nd3", "Nd4", "Nd5", "Nd6", "Nd7", "Nd8", "Nd9"}

\* The characters int() reads as decimal digits.
Digits == AsciiDigits \cup NdDigits

DigitVal(c) ==
    CASE c \in {"0", "Nd0"} -> 0 [] c \in {"1", "Nd1"} -> 1 [] c \in {"2", "Nd2"} -> 2
      [] c \in {"3", "Nd3"} -> 3 [] c \in {"4", "Nd4"} -> 4 [] c \in {"5", "Nd5"} -> 5
      [] c \in {"6", "Nd6"} -> 6 [] c \in {"7", "Nd7"} -> 7 [] c \in {"8", "Nd8"} -> 8
      [] c \in {"9", "Nd9"} -> 9

DigitChar(n) ==
    CASE n = 0 -> "0" [] n = 1 -> "1" [] n = 2 -> "2" [] n = 3 -> "3" [] n = 4 -> "4"
      [] n = 5 -> "5" [] n = 6 -> "6" [] n = 7 -> "7" [] n = 8 -> "8" [] n = 9 -> "9"

RECURSIVE LStrip(_, _)
LStrip(s, ws) == IF s # <<>> /\ Head(s) \in ws THEN LStrip(Tail(s), ws) ELSE s

RECURSIVE RStrip(_, _)
RStrip(s, ws) ==
    IF s # <<>> /\ s[Len(s)] \in ws THEN RStrip(SubSeq(s, 1, Len(s) - 1), ws) ELSE s

\* str.strip()
Strip(s) == RStrip(LStrip(s, Whitespace), Whitespace)

\* The string literals of the program.
ACGEL5L == <<"A", "C", "G", "E", "L", "5", "L">>
ACGEL250 == <<"A", "C", "G", "E", "L", "2", "5", "0">>
ACGEL5Lplus == ACGEL5L \o <<"+">>
ACGEL250_2 == ACGEL250 \o <<"(", "2", ")">>
ACGEL250_4 == ACGEL250 \o <<"(", "4", ")">>
ACGEL250_12 == ACGEL250 \o <<"(", "1", "2", ")">>
Unknown == <<"U", "n", "k", "n", "o", "w", "n">>
CodeHeader == <<"C", "o", "d", "e">>
QtyHeader == <<"Q", "T", "Y">>

-----------------------------------------------------------------------------
(* Cells and int() / str() *)

StrCell(s) == [t |-> "str", s |-> s, n |-> 0]
IntCell(n) == [t |-> "int", s |-> <<>>, n |-> n]

Row(code, qty) == [Code |-> code, QTY |-> qty]

\* The value of a digit string with single underscores between digits.
RECURSIVE DigitsValue(_, _)
DigitsValue(s, acc) ==
    IF s = <<>> THEN acc
    ELSE IF Head(s) = "_" THEN DigitsValue(Tail(s), acc)
    ELSE DigitsValue(Tail(s), 10 * acc + DigitVal(Head(s)))

\* Leading zeros (and the underscores among them) add nothing to the value:
\* the digits from the first non-zero one on.
Significant(s) ==
    LET nz == {k \in 1..Len(s) : s[k] \notin {"0", "Nd0", "_"}}
    IN  IF nz = {} THEN <<>>
        ELSE SubSeq(s, CHOOSE k \in nz : \A j \in nz : k <= j, Len(s))

IntValue(body) == DigitsValue(Significant(body), 0)

\* What int() accepts after the sign: digits, single underscores only between digits.
IsIntBody(s) ==
    /\ s # <<>>
    /\ \A k \in 1..Len(s) : s[k] \in Digits \cup {"_"}
    /\ s[1] \in Digits
    /\ s[Len(s)] \in Digits
    /\ \A k \in 1..(Len(s) - 1) : ~(s[k] = "_" /\ s[k + 1] = "_")

\* The limit int() puts on the number of digits of a text. It belongs to the
\* interpreter, not to the program: 4300 by default since CPython 3.7.16 / 3.8.17
\* / 3.9.17 / 3.10.7 / 3.11, any value from 640 up or 0 (no limit) when set by
\* PYTHONINTMAXSTRDIGITS, and no limit on older interpreters.
IntMaxStrDigitsDefault == 4300
IntMaxStrDigitsMin == 640
IntLimits == {0, IntMaxStrDigitsMin, IntMaxStrDigitsDefault}

\* The digits int() counts against the limit: every digit, leading zeros
\* included; underscores, sign and whitespace are not counted.
DigitCount(body) == Cardinality({k \in 1..Len(body) : body[k] # "_"})

WithinLimit(body) ==
    int_max_str_digits = 0 \/ DigitCount(body) <= int_max_str_digits

\* int(str): surrounding whitespace, an optional sign, base 10; ValueError on a
\* text that is no number or that holds more digits than the limit.
ParseIntStr(s) ==
    LET t == RStrip(LStrip(s, IntWhitespace), IntWhitespace)
        signed == t # <<>> /\ Head(t) \in {"+", "-"}
        body == IF signed THEN Tail(t) ELSE t
    IN  IF IsIntBody(body) /\ WithinLimit(body)
        THEN [ok |-> TRUE,
              n |-> IF signed /\ Head(t) = "-" THEN 0 - IntValue(body)
                    ELSE IntValue(body)]
        ELSE [ok |-> FALSE, n |-> 0]

\* try_parse_int: int(val), None on any exception.
try_parse_int(val) ==
    IF val.t = "int" THEN [ok |-> TRUE, n |-> val.n] ELSE ParseIntStr(val.s)

RECURSIVE NatToStr(_)
NatToStr(n) == IF n < 10 THEN <<DigitChar(n)>> ELSE NatToStr(n \div 10) \o <<DigitChar(n % 10)>>

\* str(int)
IntToStr(n) == IF n < 0 THEN <<"-">> \o NatToStr(0 - n) ELSE NatToStr(n)

\* Series.astype(str) on one cell
CellToStr(c) == IF c.t = "str" THEN c.s ELSE IntToStr(c.n)

-----------------------------------------------------------------------------
(* derive_manual_skus *)

\* df.loc[df['Code'] == code, 'QTY'] : the QTY cells of the matching rows, in table order
RECURSIVE QtyOf(_, _)
QtyOf(t, code) ==
    IF t = <<>> THEN <<>>
    ELSE (IF Head(t).Code = code THEN <<Head(t).QTY>> ELSE <<>>) \o QtyOf(Tail(t), code)

\* series.values[0] (faulty variant: the last match instead of the first)
LastValue(series) == series[Len(series)]
FirstValue(series) == series[1]

\* Python's // on ints is floor division (faulty variant: C-style truncation toward zero)
TruncDiv(a, b) == IF a >= 0 THEN a \div b ELSE 0 - ((0 - a) \div b)
FloorDiv(a, b) == a \div b

\* lines 104-107 (faulty variant: the row is added at the front)
Derive5L_front(t) ==
    LET qty_5l == QtyOf(t, ACGEL5L)
    IN  IF qty_5l # <<>> /\ try_parse_int(FirstValue(qty_5l)).ok
        THEN <<Row(ACGEL5Lplus, IntCell(try_parse_int(FirstValue(qty_5l)).n))>> \o t
        ELSE t
Derive5L(t, qty_5l) ==
    IF qty_5l # <<>>
    THEN LET q_5l == try_parse_int(FirstValue(qty_5l))
         IN  IF q_5l.ok THEN t \o <<Row(ACGEL5Lplus, IntCell(q_5l.n))>> ELSE t
    ELSE t

\* lines 112-116 (faulty variant: the (12) variant is forgotten)
DerivedRows_short(q_250) ==
    << Row(ACGEL250_2, IntCell(FloorDiv(q_250, 2))),
       Row(ACGEL250_4, IntCell(FloorDiv(q_250, 4))) >>
DerivedRows(q_250) ==
    << Row(ACGEL250_2, IntCell(FloorDiv(q_250, 2))),
       Row(ACGEL250_4, IntCell(FloorDiv(q_250, 4))),
       Row(ACGEL250_12, IntCell(FloorDiv(q_250, 12))) >>

\* lines 109-117
Derive250(t, qty_250) ==
    IF qty_250 # <<>>
    THEN LET q_250 == try_parse_int(FirstValue(qty_250))
         IN  IF q_250.ok THEN t \o DerivedRows(q_250.n) ELSE t
    ELSE t

\* Both lookups are made on the copy of the input, before anything is appended.
derive_manual_skus_front(t) ==
    Derive250(Derive5L_front(t), QtyOf(t, ACGEL250))
derive_manual_skus(t) ==
    Derive250(Derive5L(t, QtyOf(t, ACGEL5L)), QtyOf(t, ACGEL250))

-----------------------------------------------------------------------------
(* parse_stock_rows                                                        *)
(*                                                                         *)
(* The html is modelled by what the selectors see: a sequence of matching  *)
(* containers, each the sequence of its div.column elements in document    *)
(* order. An element records whether it carries the header class           *)
(* signature, its descendant text nodes in order, and its first <input>.   *)

NoInput == [present |-> FALSE, hasMax |-> FALSE, max |-> <<>>]
InputNoMax == [present |-> TRUE, hasMax |-> FALSE, max |-> <<>>]
InputMax(m) == [present |-> TRUE, hasMax |-> TRUE, max |-> m]

Column(h, texts, input) == [header |-> h, texts |-> texts, input |-> input]

\* lines 70-73: header blocks are decomposed, then the columns are collected
RECURSIVE Columns(_)
Columns(container) ==
    IF container = <<>> THEN <<>>
    ELSE (IF Head(container).header THEN <<>> ELSE <<Head(container)>>)
         \o Columns(Tail(container))

\* Tag.get_text(strip=True): every text node stripped, the empty ones dropped,
\* the rest joined with no separator.
RECURSIVE JoinStripped(_)
JoinStripped(texts) ==
    IF texts = <<>> THEN <<>> ELSE Strip(Head(texts)) \o JoinStripped(Tail(texts))

get_text(column) == JoinStripped(column.texts)

\* s.split(' ', 1)[0]: what precedes the first U+0020 (faulty variant: no truncation)
RECURSIVE UpToFirstSpace(_)
UpToFirstSpace(s) ==
    IF s = <<>> \/ Head(s) = " " THEN <<>> ELSE <<Head(s)>> \o UpToFirstSpace(Tail(s))

WholeText(code_text) == code_text
\* line 82
CodeOf(code_text) == IF code_text # <<>> THEN UpToFirstSpace(code_text) ELSE <<>>

\* lines 77-80: slot i+3 when it exists, its first input's max attribute
MaxQuantity(columns, b) ==
    IF b + 3 <= Len(columns) /\ columns[b + 3].input.present
    THEN IF columns[b + 3].input.hasMax THEN columns[b + 3].input.max ELSE Unknown
    ELSE Unknown

\* lines 76-85: one pass of the loop body, at the 1-based index b of slot 0
GroupRows(columns, b) ==
    LET max_quantity == MaxQuantity(columns, b)
        code == CodeOf(get_text(columns[b]))
    IN  IF code # <<>> THEN <<Row(code, StrCell(max_quantity))>> ELSE <<>>

\* line 75: range(0, len(columns), 5), 1-based (faulty variant: only complete groups)
RECURSIVE RangeFrom(_, _)
RangeFrom(b, last) == IF b > last THEN <<>> ELSE <<b>> \o RangeFrom(b + 5, last)

CompleteGroupBases(n) == RangeFrom(1, n - 4)
GroupBases(n) == RangeFrom(1, n)

RECURSIVE RowsAt(_, _)
RowsAt(columns, bases) ==
    IF bases = <<>> THEN <<>>
    ELSE GroupRows(columns, Head(bases)) \o RowsAt(columns, Tail(bases))

\* lines 68-87: one container
ParseContainer(container) ==
    LET columns == Columns(container) IN RowsAt(columns, GroupBases(Len(columns)))

\* lines 56-88
RECURSIVE parse_stock_rows(_)
parse_stock_rows(h) ==
    IF h = <<>> THEN <<>> ELSE ParseContainer(Head(h)) \o parse_stock_rows(Tail(h))

-----------------------------------------------------------------------------
(* URL providers *)

UrlName == <<"u", "r", "l">>

\* name.strip().lower() == "url". The only characters str.lower() turns into
\* u, r or l are those letters and their ASCII capitals, and it turns no
\* character into the empty text, so the test holds exactly for the texts that,
\* stripped, are three characters long and read u, r, l in either case.
IsUrlName(name) ==
    LET t == Strip(name)
    IN  /\ Len(t) = 3
        /\ t[1] \in {"u", "U"}
        /\ t[2] \in {"r", "R"}
        /\ t[3] \in {"l", "L"}

\* A missing value (float nan), as pandas holds it for an empty csv cell. It is
\* a marker, not a text: no text equals it, the text "NaN" included.
NaN == <<"<missing>">>

\* lines 20-28: csv is [exists, column, values], a file with one column
get_urls_from_local_csv(file) ==
    IF ~file.exists THEN <<>>
    ELSE IF IsUrlName(file.column)
         THEN SelectSeq(file.values, LAMBDA v : v # NaN)
         ELSE <<>>

\* lines 42-45: column A, an optional "url" header dropped, empty cells dropped
get_urls_from_google_sheets(colA) ==
    LET body == IF colA # <<>> /\ IsUrlName(colA[1]) THEN Tail(colA) ELSE colA
    IN  SelectSeq(body, LAMBDA u : u # <<>>)

-----------------------------------------------------------------------------
(* The pages behind the URLs *)

U1 == <<"u", "1">>
U2 == <<"u", "2">>

\* a product code that triggers no derivation
OtherCode == <<"X", "1">>

HeaderCell == Column(TRUE, << CodeHeader >>, NoInput)
CodeCell(code) == Column(FALSE, << code \o <<" ", "G", "e", "l">> >>, NoInput)
QtyCell(m) == Column(FALSE, <<>>, InputMax(m))
Cell == Column(FALSE, <<>>, NoInput)

\* What a successful GET of each URL returns, as the selectors see it.
Page(url) ==
    CASE url = U1 ->
           << << HeaderCell,
                 CodeCell(ACGEL250), Cell, Cell, QtyCell(<<"7">>), Cell,
                 CodeCell(OtherCode), Cell, Cell, Cell, Cell >> >>
      [] url = U2 ->
           << << CodeCell(ACGEL5L), Cell, Cell, QtyCell(<<"1", "2">>), Cell >>,
              << CodeCell(ACGEL250), Cell, Cell, QtyCell(<<"1", "0", "0">>), Cell >> >>
      [] OTHER -> <<>>

-----------------------------------------------------------------------------
(* main *)

Event(op, url, res) == [op |-> op, url |-> url, res |-> res]
Call(op) == Event(op, <<>>, "")

None == [kind |-> "none", containers |-> <<>>]

\* lines 153-163 (faulty variant: the early return is missing)
GetUrls_NoReturn ==
    /\ pc = "start"
    /\ urls' = IF USE_SHEETS THEN get_urls_from_google_sheets(sheetA)
               ELSE get_urls_from_local_csv(csv)
    /\ log' = IF urls' = <<>> THEN log \o <<Call("print_info")>> ELSE log
    /\ pc' = IF urls' = <<>> THEN "build" ELSE "fetch"
    /\ all_stock_data' = <<>>
    /\ UNCHANGED <<USE_SHEETS, csv, sheetA, sheetB, sheetC, headerBold, outfile, i, html,
                   df, sink, initial>>
    /\ UNCHANGED <<deriveVars, parseVars, int_max_str_digits>>
GetUrls ==
    /\ pc = "start"
    /\ urls' = IF USE_SHEETS THEN get_urls_from_google_sheets(sheetA)
               ELSE get_urls_from_local_csv(csv)
    /\ IF urls' = <<>>
       THEN /\ log' = log \o <<Call("print_info")>>
            /\ pc' = "done"
            /\ UNCHANGED all_stock_data
       ELSE /\ log' = log
            /\ pc' = "fetch"
            /\ all_stock_data' = <<>>
    /\ UNCHANGED <<USE_SHEETS, csv, sheetA, sheetB, sheetC, headerBold, outfile, i, html,
                   df, sink, initial>>
    /\ UNCHANGED <<deriveVars, parseVars, int_max_str_digits>>

\* line 165 with lines 47-54: one GET; the outcome is the network's choice.
\*   ok    : a 2xx response with the page's text
\*   empty : a 2xx response with an empty body
\*   fail  : any exception, warned about and turned into None
FetchHtml ==
    /\ pc = "fetch"
    /\ \E res \in {"ok", "empty", "fail"} :
        /\ html' = CASE res = "ok" -> [kind |-> "text", containers |-> Page(urls[i])]
                     [] res = "empty" -> [kind |-> "empty", containers |-> <<>>]
                     [] res = "fail" -> None
        /\ log' = log \o <<Event("fetch", urls[i], res)>>
                      \o (IF res = "fail" THEN <<Event("warn", urls[i], "")>> ELSE <<>>)
    /\ pc' = "parse"
    /\ UNCHANGED <<USE_SHEETS, csv, sheetA, sheetB, sheetC, headerBold, outfile, urls, i,
                   all_stock_data, df, sink, initial>>
    /\ UNCHANGED <<deriveVars, parseVars, int_max_str_digits>>

\* lines 166-168 (faulty variant: the page's rows are put in front)
ParseExtend_Front ==
    /\ pc = "parse"
    /\ all_stock_data' = IF html.kind = "text"
                         THEN parse_stock_rows(html.containers) \o all_stock_data
                         ELSE all_stock_data
    /\ pc' = "sleep"
    /\ UNCHANGED <<USE_SHEETS, csv, sheetA, sheetB, sheetC, headerBold, outfile, urls, i,
                   html, df, log, sink, initial>>
    /\ UNCHANGED <<deriveVars, parseVars, int_max_str_digits>>
ParseExtend ==
    /\ pc = "parse"
    /\ all_stock_data' = IF html.kind = "text"
                         THEN all_stock_data \o parse_stock_rows(html.containers)
                         ELSE all_stock_data
    /\ pc' = "sleep"
    /\ UNCHANGED <<USE_SHEETS, csv, sheetA, sheetB, sheetC, headerBold, outfile, urls, i,
                   html, df, log, sink, initial>>
    /\ UNCHANGED <<deriveVars, parseVars, int_max_str_digits>>

\* line 169 and the loop's step (faulty variant: the delay is inside the `if html:`)
Sleep_OnSuccessOnly ==
    /\ pc = "sleep"
    /\ log' = IF html.kind = "text" THEN log \o <<Call("sleep")>> ELSE log
    /\ IF i < Len(urls) THEN i' = i + 1 /\ pc' = "fetch" ELSE i' = i /\ pc' = "build"
    /\ UNCHANGED <<USE_SHEETS, csv, sheetA, sheetB, sheetC, headerBold, outfile, urls,
                   html, all_stock_data, df, sink, initial>>
    /\ UNCHANGED <<deriveVars, parseVars, int_max_str_digits>>
Sleep ==
    /\ pc = "sleep"
    /\ log' = log \o <<Call("sleep")>>
    /\ IF i < Len(urls) THEN i' = i + 1 /\ pc' = "fetch" ELSE i' = i /\ pc' = "build"
    /\ UNCHANGED <<USE_SHEETS, csv, sheetA, sheetB, sheetC, headerBold, outfile, urls,
                   html, all_stock_data, df, sink, initial>>
    /\ UNCHANGED <<deriveVars, parseVars, int_max_str_digits>>

\* DataFrame(...).dropna(subset=["Code"]): rows whose Code is missing are dropped
DropNaCode(t) == SelectSeq(t, LAMBDA r : r.Code # NaN)

\* lines 172-173
BuildAndDerive ==
    /\ pc = "build"
    /\ df' = derive_manual_skus(DropNaCode(all_stock_data))
    /\ log' = log \o <<Call("derive")>>
    /\ pc' = "output"
    /\ UNCHANGED <<USE_SHEETS, csv, sheetA, sheetB, sheetC, headerBold, outfile, urls, i,
                   html, all_stock_data, sink, initial>>
    /\ UNCHANGED <<deriveVars, parseVars, int_max_str_digits>>

\* DataFrame.to_csv(index=False): the header line, then one line per row
ToCsv(t) ==
    <<<<CodeHeader, QtyHeader>>>> \o [k \in 1..Len(t) |-> <<t[k].Code, CellToStr(t[k].QTY)>>]

\* lines 179-182
OutputCsv ==
    /\ pc = "output"
    /\ ~USE_SHEETS
    /\ sink' = sink \o <<df>>
    /\ outfile' = <<ToCsv(df)>>
    /\ log' = log \o <<Call("to_csv"), Call("print_wrote")>>
    /\ pc' = "done"
    /\ UNCHANGED <<USE_SHEETS, csv, sheetA, sheetB, sheetC, headerBold, urls, i, html,
                   all_stock_data, df, initial>>
    /\ UNCHANGED <<deriveVars, parseVars, int_max_str_digits>>

\* line 177: the call of write_to_google_sheets(df)
OutputSheets ==
    /\ pc = "output"
    /\ USE_SHEETS
    /\ sink' = sink \o <<df>>
    /\ pc' = "w_clear"
    /\ UNCHANGED <<USE_SHEETS, csv, sheetA, sheetB, sheetC, headerBold, outfile, urls, i,
                   html, all_stock_data, df, log, initial>>
    /\ UNCHANGED <<deriveVars, parseVars, int_max_str_digits>>

\* "B2:B": every cell of the column from row 2 down is emptied
ClearFromRow2(col) == IF col = <<>> THEN <<>> ELSE <<col[1]>>

\* line 138
Values(t) == [k \in 1..Len(t) |-> <<t[k].Code, CellToStr(t[k].QTY)>>]

\* lines 135-140 (faulty variant: only column B is cleared)
BatchClear_OnlyB ==
    /\ pc = "w_clear"
    /\ sheetB' = ClearFromRow2(sheetB)
    /\ sheetC' = sheetC
    /\ log' = log \o <<Call("batch_clear")>>
    /\ pc' = IF Values(df) = <<>> THEN "w_return" ELSE "w_update_b"
    /\ UNCHANGED <<USE_SHEETS, csv, sheetA, headerBold, outfile, urls, i, html,
                   all_stock_data, df, sink, initial>>
    /\ UNCHANGED <<deriveVars, parseVars, int_max_str_digits>>
BatchClear ==
    /\ pc = "w_clear"
    /\ sheetB' = ClearFromRow2(sheetB)
    /\ sheetC' = ClearFromRow2(sheetC)
    /\ log' = log \o <<Call("batch_clear")>>
    /\ pc' = IF Values(df) = <<>> THEN "w_return" ELSE "w_update_b"
    /\ UNCHANGED <<USE_SHEETS, csv, sheetA, headerBold, outfile, urls, i, html,
                   all_stock_data, df, sink, initial>>
    /\ UNCHANGED <<deriveVars, parseVars, int_max_str_digits>>

\* sheet.update("X1:Xk", cells): rows 1..k are overwritten, the rows below are kept
UpdateRange(col, cells) == cells \o SubSeq(col, Len(cells) + 1, Len(col))

\* lines 144, 146
UpdateB ==
    /\ pc = "w_update_b"
    /\ LET code_col == <<CodeHeader>> \o [k \in 1..Len(df) |-> Values(df)[k][1]]
       IN  sheetB' = UpdateRange(sheetB, code_col)
    /\ log' = log \o <<Call("update_B")>>
    /\ pc' = "w_update_c"
    /\ UNCHANGED <<USE_SHEETS, csv, sheetA, sheetC, headerBold, outfile, urls, i, html,
                   all_stock_data, df, sink, initial>>
    /\ UNCHANGED <<deriveVars, parseVars, int_max_str_digits>>

\* lines 145, 147
UpdateC ==
    /\ pc = "w_update_c"
    /\ LET qty_col == <<QtyHeader>> \o [k \in 1..Len(df) |-> Values(df)[k][2]]
       IN  sheetC' = UpdateRange(sheetC, qty_col)
    /\ log' = log \o <<Call("update_C")>>
    /\ pc' = "w_format"
    /\ UNCHANGED <<USE_SHEETS, csv, sheetA, sheetB, headerBold, outfile, urls, i, html,
                   all_stock_data, df, sink, initial>>
    /\ UNCHANGED <<deriveVars, parseVars, int_max_str_digits>>

\* line 150
FormatHeader ==
    /\ pc = "w_format"
    /\ headerBold' = TRUE
    /\ log' = log \o <<Call("format")>>
    /\ pc' = "w_return"
    /\ UNCHANGED <<USE_SHEETS, csv, sheetA, sheetB, sheetC, outfile, urls, i, html,
                   all_stock_data, df, sink, initial>>
    /\ UNCHANGED <<deriveVars, parseVars, int_max_str_digits>>

\* line 178
PrintUpdated ==
    /\ pc = "w_return"
    /\ log' = log \o <<Call("print_updated")>>
    /\ pc' = "done"
    /\ UNCHANGED <<USE_SHEETS, csv, sheetA, sheetB, sheetC, headerBold, outfile, urls, i,
                   html, all_stock_data, df, sink, initial>>
    /\ UNCHANGED <<deriveVars, parseVars, int_max_str_digits>>

-----------------------------------------------------------------------------
(* The run of main: the environment is drawn from bounded sets *)

DeriveIdle == d_in = <<>> /\ d_out = <<>> /\ d_pc = "idle"
ParseIdle == p_html = <<>> /\ p_out = <<>> /\ p_pc = "idle"

MaxUrls == 2
MaxStale == 8

Old == <<"o", "l", "d">>
StaleColumn(k) == [j \in 1..k |-> Old]
StaleLengths == {0, 2, MaxStale}

CsvCells == UNION {[1..n -> {U1, U2, NaN}] : n \in 0..MaxUrls}
CsvFiles ==
    {[exists |-> FALSE, column |-> <<>>, values |-> <<>>]}
    \cup {[exists |-> TRUE, column |-> c, values |-> v] :
            c \in {<<" ", "U", "R", "L">>, <<"l", "i", "n", "k">>}, v \in CsvCells}

ColumnA ==
    LET cells == UNION {[1..n -> {U1, U2, <<>>}] : n \in 0..MaxUrls}
    IN  cells \cup {<<<<"U", "r", "l", " ">>>> \o c : c \in cells}

Init ==
    /\ pc = "start"
    /\ USE_SHEETS \in BOOLEAN
    /\ IF USE_SHEETS
       THEN /\ csv = [exists |-> FALSE, column |-> <<>>, values |-> <<>>]
            /\ outfile = <<>>
            /\ sheetA \in ColumnA
            /\ \E k \in StaleLengths : sheetB = StaleColumn(k) /\ sheetC = StaleColumn(k)
            /\ headerBold \in BOOLEAN
       ELSE /\ csv \in CsvFiles
            /\ outfile \in {<<>>, <<ToCsv(<<Row(Old, StrCell(Old))>>)>>}
            /\ sheetA = <<>>
            /\ sheetB = <<>>
            /\ sheetC = <<>>
            /\ headerBold = FALSE
    /\ urls = <<>>
    /\ i = 1
    /\ html = None
    /\ all_stock_data = <<>>
    /\ df = <<>>
    /\ log = <<>>
    /\ sink = <<>>
    /\ initial = [outfile |-> outfile, sheetB |-> sheetB, sheetC |-> sheetC,
                  headerBold |-> headerBold]
    /\ int_max_str_digits \in IntLimits
    /\ DeriveIdle
    /\ ParseIdle

Next ==
    \/ GetUrls
    \/ FetchHtml
    \/ ParseExtend
    \/ Sleep
    \/ BuildAndDerive
    \/ OutputCsv
    \/ OutputSheets
    \/ BatchClear
    \/ UpdateB
    \/ UpdateC
    \/ FormatHeader
    \/ PrintUpdated

Spec == Init /\ [][Next]_vars

-----------------------------------------------------------------------------
(* Harness for derive_manual_skus: the input table is drawn from a bounded *)
(* set and the function is applied to it once.                             *)

MaxRows == 3

\* a quantity of n zeros
Zeros(n) == [k \in 1..n |-> "0"]

DeriveCodes == {ACGEL5L, ACGEL250, OtherCode}
DeriveQtys ==
    { StrCell(<<"1", "0", "0">>), StrCell(<<"7">>), StrCell(Unknown),
      StrCell(<<"-", "7">>), StrCell(<<NBSP, "Nd1", "2", VT>>) }
\* one digit more than the smallest limit an interpreter can be given
LongQty == StrCell(Zeros(IntMaxStrDigitsMin + 1))
DeriveRows == {Row(c, q) : c \in DeriveCodes, q \in DeriveQtys} \cup {Row(ACGEL250, LongQty)}
DeriveTables == UNION {[1..n -> DeriveRows] : n \in 0..MaxRows}

MainIdle ==
    /\ pc = "idle"
    /\ USE_SHEETS = FALSE
    /\ csv = [exists |-> FALSE, column |-> "", values |-> <<>>]
    /\ sheetA = <<>>
    /\ sheetB = <<>>
    /\ sheetC = <<>>
    /\ headerBold = FALSE
    /\ outfile = <<>>
    /\ urls = <<>>
    /\ i = 1
    /\ html = None
    /\ all_stock_data = <<>>
    /\ df = <<>>
    /\ log = <<>>
    /\ sink = <<>>
    /\ initial = [outfile |-> <<>>, sheetB |-> <<>>, sheetC |-> <<>>, headerBold |-> FALSE]


DeriveInit ==
    /\ d_in \in DeriveTables
    /\ d_out = <<>>
    /\ d_pc = "ready"
    /\ int_max_str_digits \in IntLimits
    /\ MainIdle
    /\ ParseIdle

\* result = derive_manual_skus(table): the function works on a copy (line 100) and
\* rebinds its local name, so the caller's table keeps its value.
DeriveCall ==
    /\ d_pc = "ready"
    /\ d_out' = derive_manual_skus(d_in)
    /\ d_pc' = "done"
    /\ UNCHANGED d_in
    /\ UNCHANGED mainVars
    /\ UNCHANGED <<parseVars, int_max_str_digits>>

DeriveNext == DeriveCall

DeriveSpec == DeriveInit /\ [][DeriveNext]_vars

-----------------------------------------------------------------------------
(* Claims about derive_manual_skus *)

HasCode(t, code) == \E k \in 1..Len(t) : t[k].Code = code

\* The index of the first row of t that carries code (0 when there is none).
FirstIndex(t, code) ==
    IF HasCode(t, code)
    THEN CHOOSE k \in 1..Len(t) :
            t[k].Code = code /\ \A j \in 1..(k - 1) : t[j].Code # code
    ELSE 0

\* The rows the call appended after the input rows.
Appended == SubSeq(d_out, Len(d_in) + 1, Len(d_out))

\* C1: derive_manual_skus leaves the caller's table untouched; the first
\* len(input) rows of the result are the input rows, same order and values,
\* derived rows come only after them; with neither trigger code present the
\* result equals the input.
C1_InputPreserved ==
    d_pc = "done" =>
        /\ Len(d_out) >= Len(d_in)
        /\ \A k \in 1..Len(d_in) : d_out[k] = d_in[k]
        /\ (~HasCode(d_in, ACGEL5L) /\ ~HasCode(d_in, ACGEL250)) => d_out = d_in

C1_Witness ==
    /\ d_pc = "done"
    /\ Len(d_in) = 3
    /\ d_in[1].Code = OtherCode
    /\ d_in[2].Code = ACGEL250
    /\ d_in[3].Code = ACGEL5L
    /\ Len(d_out) = 7

\* C2 as stated: the number of appended rows is 0, 1 or 4.
C2_Original == d_pc = "done" => (Len(d_out) - Len(d_in)) \in {0, 1, 4}

\* C2 amended: the number of appended rows is 0, 1, 3 or 4: 1 for a parseable
\* ACGEL5L, 3 for a parseable ACGEL250, decided by the first row of each code.
C2_AppendedCount ==
    d_pc = "done" =>
        LET five == HasCode(d_in, ACGEL5L)
                    /\ try_parse_int(d_in[FirstIndex(d_in, ACGEL5L)].QTY).ok
            two50 == HasCode(d_in, ACGEL250)
                     /\ try_parse_int(d_in[FirstIndex(d_in, ACGEL250)].QTY).ok
        IN  /\ (Len(d_out) - Len(d_in)) \in {0, 1, 3, 4}
            /\ Len(d_out) - Len(d_in) = (IF five THEN 1 ELSE 0) + (IF two50 THEN 3 ELSE 0)

C2_Witness ==
    /\ d_pc = "done"
    /\ HasCode(d_in, ACGEL250)
    /\ ~HasCode(d_in, ACGEL5L)
    /\ Len(d_out) - Len(d_in) = 3

\* C3: when the first ACGEL250 row's quantity parses as q, the last three rows
\* appended are ACGEL250(2), ACGEL250(4), ACGEL250(12) with q div 2, q div 4,
\* q div 12 (floor division; "100" gives 50, 25, 8 and "7" gives 3, 1, 0).
C3_Derived250 ==
    (d_pc = "done" /\ HasCode(d_in, ACGEL250)) =>
        LET qty == d_in[FirstIndex(d_in, ACGEL250)].QTY
            q == try_parse_int(qty)
            n == Len(d_out)
        IN  q.ok =>
              /\ n >= Len(d_in) + 3
              /\ d_out[n - 2] = Row(ACGEL250_2, IntCell(q.n \div 2))
              /\ d_out[n - 1] = Row(ACGEL250_4, IntCell(q.n \div 4))
              /\ d_out[n] = Row(ACGEL250_12, IntCell(q.n \div 12))
              /\ \A k \in 1..(n - 3) : d_out[k].Code \notin {ACGEL250_2, ACGEL250_4, ACGEL250_12}
              /\ (qty = StrCell(<<"1", "0", "0">>)) =>
                    <<d_out[n - 2].QTY.n, d_out[n - 1].QTY.n, d_out[n].QTY.n>> = <<50, 25, 8>>
              /\ (qty = StrCell(<<"7">>)) =>
                    <<d_out[n - 2].QTY.n, d_out[n - 1].QTY.n, d_out[n].QTY.n>> = <<3, 1, 0>>
              /\ (qty = StrCell(<<"-", "7">>)) =>
                    <<d_out[n - 2].QTY.n, d_out[n - 1].QTY.n, d_out[n].QTY.n>> = <<-4, -2, -1>>

C3_Witness ==
    /\ d_pc = "done"
    /\ d_in = <<Row(ACGEL250, StrCell(<<"7">>))>>
    /\ Appended = << Row(ACGEL250_2, IntCell(3)), Row(ACGEL250_4, IntCell(1)),
                     Row(ACGEL250_12, IntCell(0)) >>

\* C9: with several rows of one trigger code only the first, in table order,
\* decides: its quantity is the one the derived rows are computed from, and when
\* it does not parse nothing is appended for that trigger, whatever later
\* duplicates hold.
C9_FirstMatchOnly ==
    d_pc = "done" =>
        /\ HasCode(d_in, ACGEL5L) =>
             LET q == try_parse_int(d_in[FirstIndex(d_in, ACGEL5L)].QTY)
             IN  IF q.ok
                 THEN Appended # <<>> /\ Appended[1] = Row(ACGEL5Lplus, IntCell(q.n))
                 ELSE ~HasCode(Appended, ACGEL5Lplus)
        /\ HasCode(d_in, ACGEL250) =>
             LET q == try_parse_int(d_in[FirstIndex(d_in, ACGEL250)].QTY)
             IN  IF q.ok
                 THEN /\ Len(Appended) >= 3
                      /\ Appended[Len(Appended) - 2].QTY = IntCell(q.n \div 2)
                 ELSE ~HasCode(Appended, ACGEL250_2)
        /\ (~HasCode(d_in, ACGEL5L) \/ ~try_parse_int(d_in[FirstIndex(d_in, ACGEL5L)].QTY).ok)
           /\ (~HasCode(d_in, ACGEL250)
                  \/ ~try_parse_int(d_in[FirstIndex(d_in, ACGEL250)].QTY).ok)
           => Appended = <<>>

C9_Witness ==
    /\ d_pc = "done"
    /\ d_in = << Row(ACGEL250, StrCell(Unknown)), Row(ACGEL250, StrCell(<<"1", "0", "0">>)),
                 Row(ACGEL5L, StrCell(<<"7">>)) >>
    /\ Appended = <<Row(ACGEL5Lplus, IntCell(7))>>

-----------------------------------------------------------------------------
(* Harness for parse_stock_rows: the html is drawn from a bounded set and  *)
(* the function is applied to it once.                                     *)

MaxCols == 6

\* "AB W": a code followed by descriptive text
ColCode == Column(FALSE, << <<"A", "B", " ", "W">> >>, NoInput)
\* a cell holding only <input max="15"> and layout whitespace
ColQty == Column(FALSE, << <<"\n", " ">> >>, InputMax(<<"1", "5">>))
\* a column-title cell carrying the header class signature
ColHeader == Column(TRUE, << CodeHeader >>, NoInput)
\* several text nodes, &nbsp; in front, an inner tab, a whitespace-only node, an
\* input without max
ColMixed ==
    Column(FALSE, << <<NBSP, "C", "\t", "D">>, <<" ">>, <<"E", " ", "F", "\n">> >>, InputNoMax)

ColumnChoices == {ColCode, ColQty, ColHeader, ColMixed}
Containers == UNION {[1..n -> ColumnChoices] : n \in 0..MaxCols}
SecondContainer == <<ColMixed, ColQty, ColQty, ColQty>>
Htmls ==
    {<<>>} \cup {<<c>> : c \in Containers} \cup {<<c, SecondContainer>> : c \in Containers}

ParseInit ==
    /\ p_html \in Htmls
    /\ p_out = <<>>
    /\ p_pc = "ready"
    /\ int_max_str_digits = IntMaxStrDigitsDefault
    /\ MainIdle
    /\ DeriveIdle

\* rows = parse_stock_rows(html)
ParseCall ==
    /\ p_pc = "ready"
    /\ p_out' = parse_stock_rows(p_html)
    /\ p_pc' = "done"
    /\ UNCHANGED p_html
    /\ UNCHANGED mainVars
    /\ UNCHANGED <<deriveVars, int_max_str_digits>>

ParseNext == ParseCall

ParseSpec == ParseInit /\ [][ParseNext]_vars

-----------------------------------------------------------------------------
(* Claims about parse_stock_rows *)

\* The data columns of the first container (headers removed), for the claims.
Cols1 == IF p_html = <<>> THEN <<>> ELSE SelectSeq(p_html[1], LAMBDA c : ~c.header)

\* The rows that came out of the first container.
Rows1 == IF Len(p_html) = 2 THEN SubSeq(p_out, 1, Len(p_out) - 1) ELSE p_out

\* The text of a column as get_text(strip=True) gives it, stated node by node
\* (the columns drawn here hold at most two nodes that are not blank).
TextOf(c) ==
    LET kept == SelectSeq(c.texts, LAMBDA x : \E k \in 1..Len(x) : x[k] \notin Whitespace)
    IN  IF kept = <<>> THEN <<>>
        ELSE IF Len(kept) = 1 THEN Strip(kept[1])
        ELSE Strip(kept[1]) \o Strip(kept[2])

\* c is text cut at its first space character.
CutAtSpace(c, text) ==
    /\ Len(c) <= Len(text)
    /\ \A k \in 1..Len(c) : c[k] = text[k] /\ c[k] # " "
    /\ Len(c) < Len(text) => text[Len(c) + 1] = " "

\* The number of groups of the first container whose slot 0 has text.
CodedGroups(n) == Cardinality({b \in 1..n : b % 5 = 1 /\ TextOf(Cols1[b]) # <<>>})

\* C4 as stated: a container with fewer than 5 columns yields zero rows.
C4_Original ==
    (p_pc = "done" /\ Len(p_html) = 1 /\ Len(Cols1) < 5) => p_out = <<>>

\* C4 amended: an incomplete trailing group is parsed like any other group. It
\* emits a row exactly when its slot 0 has text; the row's quantity is
\* "Unknown" when the group has fewer than 4 columns and is read from slot 3
\* otherwise. Only a container with no column at all, or whose slot 0 texts are
\* empty, yields zero rows.
C4_IncompleteGroup ==
    (p_pc = "done" /\ p_html # <<>>) =>
        LET n == Len(Cols1)
            r == n % 5
            b == n - r + 1
        IN  /\ Len(Rows1) = CodedGroups(n)
            /\ (n = 0) => Rows1 = <<>>
            /\ (r > 0 /\ TextOf(Cols1[b]) # <<>>) =>
                 /\ Rows1 # <<>>
                 /\ CutAtSpace(Rows1[Len(Rows1)].Code, TextOf(Cols1[b]))
                 /\ (r < 4) => Rows1[Len(Rows1)].QTY = StrCell(Unknown)
                 /\ (r = 4 /\ Cols1[n].input.hasMax) =>
                       Rows1[Len(Rows1)].QTY = StrCell(Cols1[n].input.max)
                 /\ (r = 4 /\ ~Cols1[n].input.hasMax) =>
                       Rows1[Len(Rows1)].QTY = StrCell(Unknown)

C4_Witness ==
    /\ p_pc = "done"
    /\ p_html = << <<ColCode, ColQty, ColQty>> >>
    /\ p_out = << Row(<<"A", "B">>, StrCell(Unknown)) >>

\* C10 as stated: an emitted code is non-empty and holds no whitespace
\* character (space, tab, newline).
C10_Original ==
    p_pc = "done" =>
        \A k \in 1..Len(p_out) :
            /\ p_out[k].Code # <<>>
            /\ \A j \in 1..Len(p_out[k].Code) : p_out[k].Code[j] \notin Whitespace

\* C10 amended: every emitted code is non-empty and is the text of slot i cut at
\* its first space character (U+0020), so it never holds a space; a tab or a
\* newline inside the text does not end the code. A group whose slot i text is
\* empty emits no row.
C10_CodeToken ==
    (p_pc = "done" /\ p_html # <<>>) =>
        LET n == Len(Cols1)
            coded == {b \in 1..n : b % 5 = 1 /\ TextOf(Cols1[b]) # <<>>}
            \* the position in Rows1 of the row of the group at b
            pos(b) == Cardinality({c \in coded : c <= b})
        IN  /\ Len(Rows1) = Cardinality(coded)
            /\ \A k \in 1..Len(p_out) :
                  p_out[k].Code # <<>> /\ \A j \in 1..Len(p_out[k].Code) : p_out[k].Code[j] # " "
            /\ \A b \in coded : CutAtSpace(Rows1[pos(b)].Code, TextOf(Cols1[b]))

C10_Witness ==
    /\ p_pc = "done"
    /\ p_html = << <<ColCode, ColQty, ColQty, ColQty, ColQty, ColQty>> >>
    /\ p_out = << Row(<<"A", "B">>, StrCell(<<"1", "5">>)) >>

-----------------------------------------------------------------------------
(* Claims about main and write_to_google_sheets *)

OpsOf(ops) == SelectSeq(log, LAMBDA e : e.op \in ops)
Fetches == OpsOf({"fetch"})
SheetCalls == OpsOf({"batch_clear", "update_B", "update_C", "format"})
Done == pc = "done"

\* The rows each page holds, written out by hand.
PageRows(url) ==
    CASE url = U1 -> << Row(ACGEL250, StrCell(<<"7">>)), Row(OtherCode, StrCell(Unknown)) >>
      [] url = U2 -> << Row(ACGEL5L, StrCell(<<"1", "2">>)),
                        Row(ACGEL250, StrCell(<<"1", "0", "0">>)) >>
      [] OTHER -> <<>>

\* The rows of the pages fetched with success, in the order of the fetches.
RECURSIVE Extracted(_)
Extracted(fs) ==
    IF fs = <<>> THEN <<>>
    ELSE (IF Head(fs).res = "ok" THEN PageRows(Head(fs).url) ELSE <<>>) \o Extracted(Tail(fs))

\* C5: with a non-empty URL list every URL is fetched exactly once, in list
\* order, whatever the earlier outcomes; a failed fetch is warned about and
\* does not end the run; a delay follows every fetch attempt; and the run goes
\* on to the derive and output stages after the last URL.
C5_EveryUrlFetched ==
    LET steps == OpsOf({"fetch", "sleep"})
    IN  /\ \A k \in 1..Len(steps) :
              IF k % 2 = 1
              THEN steps[k].op = "fetch" /\ (k + 1) \div 2 <= Len(urls)
                   /\ steps[k].url = urls[(k + 1) \div 2]
              ELSE steps[k].op = "sleep"
        /\ \A k \in 1..Len(log) :
              (log[k].op = "fetch" /\ log[k].res = "fail") =>
                  k < Len(log) /\ log[k + 1] = Event("warn", log[k].url, "")
        /\ (pc \in {"build", "output", "w_clear", "w_update_b", "w_update_c", "w_format",
                    "w_return", "done"} /\ urls # <<>>) =>
              /\ Len(steps) = 2 * Len(urls)
              /\ [k \in 1..Len(Fetches) |-> Fetches[k].url] = urls
        /\ (Done /\ urls # <<>>) =>
              /\ Len(OpsOf({"derive"})) = 1
              /\ Len(sink) = 1
              /\ Len(OpsOf({"to_csv", "batch_clear"})) = 1
        /\ pc \in {"start", "fetch", "parse", "sleep", "build", "output", "w_clear",
                   "w_update_b", "w_update_c", "w_format", "w_return", "done"}
        /\ pc = "fetch" => i \in 1..Len(urls) /\ Len(steps) = 2 * (i - 1)
        /\ pc \in {"parse", "sleep"} =>
              /\ i \in 1..Len(urls)
              /\ Len(steps) = 2 * i - 1
              /\ (html = None) = (Fetches[i].res = "fail")

C5_Witness ==
    /\ Done
    /\ urls = <<U1, U2>>
    /\ Fetches = <<Event("fetch", U1, "fail"), Event("fetch", U2, "ok")>>
    /\ Len(OpsOf({"sleep"})) = 2
    /\ Len(sink) = 1

\* C6: in write_to_google_sheets the clear of B2:B and C2:C comes before any
\* cell write. For a table of n > 0 rows the header and the n rows are then
\* written to rows 1..n+1 of B and C, the header is made bold last, and nothing
\* is left below row n+1. For an empty table the clear still happens and no
\* cell is written and no format applied.
C6_ClearThenWrite ==
    LET calls == SheetCalls
        n == Len(df)
    IN  /\ calls # <<>> => calls[1].op = "batch_clear"
        /\ \A k \in 1..Len(calls) :
              calls[k] = << Call("batch_clear"), Call("update_B"), Call("update_C"),
                            Call("format") >>[k]
        /\ (Done /\ USE_SHEETS /\ urls # <<>> /\ n > 0) =>
              /\ Len(calls) = 4
              /\ Len(sheetB) = n + 1 /\ Len(sheetC) = n + 1
              /\ sheetB[1] = CodeHeader /\ sheetC[1] = QtyHeader
              /\ \A k \in 1..n :
                    sheetB[k + 1] = df[k].Code /\ sheetC[k + 1] = CellToStr(df[k].QTY)
              /\ headerBold
        /\ (Done /\ USE_SHEETS /\ urls # <<>> /\ n = 0) =>
              /\ calls = <<Call("batch_clear")>>
              /\ Len(sheetB) <= 1 /\ Len(sheetC) <= 1
              /\ initial.sheetB # <<>> => sheetB = <<initial.sheetB[1]>>
              /\ initial.sheetC # <<>> => sheetC = <<initial.sheetC[1]>>
              /\ headerBold = initial.headerBold

C6_Witness ==
    /\ Done
    /\ USE_SHEETS
    /\ Len(initial.sheetC) = MaxStale
    /\ Len(df) = 5
    /\ Len(sheetC) = 6
    /\ sheetC[6] = <<"0">>

\* C7: when the active provider yields no URL, main prints the informational
\* message and returns: no fetch, no delay, no derivation, no output; the output
\* file and the worksheet are as they were.
C7_NoUrlsNoWork ==
    (pc # "start" /\ urls = <<>>) =>
        /\ Done
        /\ log = <<Call("print_info")>>
        /\ sink = <<>>
        /\ df = <<>>
        /\ outfile = initial.outfile
        /\ sheetB = initial.sheetB /\ sheetC = initial.sheetC
        /\ headerBold = initial.headerBold

C7_Witness ==
    /\ Done
    /\ urls = <<>>
    /\ csv.exists
    /\ csv.values = <<NaN, NaN>>
    /\ outfile # <<>>
    /\ log = <<Call("print_info")>>

\* C8: the table handed to the sink is, in order, the rows of the pages fetched
\* with success, in URL-list order and page order, followed by the derived
\* rows; a failed fetch contributes nothing; the table is handed over exactly
\* once per run.
C8_SinkTable ==
    /\ Len(sink) <= 1
    /\ (Done /\ urls # <<>>) =>
          LET rows == Extracted(Fetches)
              n == Len(rows)
          IN  /\ Len(sink) = 1
              /\ Len(sink[1]) >= n
              /\ SubSeq(sink[1], 1, n) = rows
              /\ \A k \in (n + 1)..Len(sink[1]) :
                    sink[1][k].Code \in {ACGEL5Lplus, ACGEL250_2, ACGEL250_4, ACGEL250_12}
              /\ sink[1] = derive_manual_skus(rows)
              /\ ~USE_SHEETS => outfile = <<ToCsv(sink[1])>>

C8_Witness ==
    /\ Done
    /\ urls = <<U2, U1>>
    /\ Fetches = <<Event("fetch", U2, "ok"), Event("fetch", U1, "ok")>>
    /\ sink = << PageRows(U2) \o PageRows(U1)
                 \o << Row(ACGEL5Lplus, IntCell(12)), Row(ACGEL250_2, IntCell(50)),
                       Row(ACGEL250_4, IntCell(25)), Row(ACGEL250_12, IntCell(8)) >> >>

====
